---- MODULE Spec2Model ----
(***************************************************************************)
(* A model of rcrpg-rust (src/src/main.rs): the dungeon (a sparse map from *)
(* Location to Room), the player, the command alias table and the command   *)
(* loop of main.  Every handler of main.rs is a pure operator that returns  *)
(* the state it leaves and the text it prints; one action per Command       *)
(* reads a line, resolves its first token with find_command and applies the *)
(* handler.                                                                 *)
(*                                                                          *)
(* Strings are TLA+ strings.  An Option is its value or None.  A HashSet is *)
(* a set; a Vec is a sequence.  What a handler prints is a sequence of      *)
(* pieces, one per print!/println! call, each [text, items]: items is the   *)
(* set of phrases a HashSet iteration joins with ", " at the {} of text     *)
(* (the iteration order of a HashSet is not fixed by the program).          *)
(***************************************************************************)
EXTENDS Integers, Sequences, FiniteSets, TLC

VARIABLES
    command_aliases,  \* main: let mut command_aliases
    dungeon,          \* main: let mut dungeon
    player,           \* main: let mut player
    input,            \* the line read last, as its whitespace-separated tokens
    out,              \* what the last command printed
    prev,             \* history: command_aliases, dungeon and player before the last command
    steps             \* history: the number of lines read so far

vars == <<command_aliases, dungeon, player, input, out, prev, steps>>

None == "None"

--------------------------------------------------------------------------
(* Bounds of the model *)

\* lines read in one run
MaxSteps == 4
\* rooms the dungeon may hold (the two of Dungeon::new included)
MaxRooms == 4
\* dig creates rooms only at coordinates of absolute value at most MaxCoord
MaxCoord == 1

--------------------------------------------------------------------------
(* Location *)

Location(x, y, z) == <<x, y, z>>

\* i32 addition; the coordinates of the model stay within MaxCoord + 1 of the
\* rooms of Dungeon::new, far from the ends of the i32 range
Add(self, rhs) == Location(self[1] + rhs[1], self[2] + rhs[2], self[3] + rhs[3])

LocationDebug(l) ==
    "(" \o ToString(l[1]) \o ", " \o ToString(l[2]) \o ", " \o ToString(l[3]) \o ")"

(* Object *)

Object == {"Ladder", "Sledge", "Gold"}

ObjectDisplay(o) ==
    CASE o = "Ladder" -> "a ladder"
      [] o = "Sledge" -> "a sledge"
      [] o = "Gold" -> "some gold"

Object_from_string(s) ==
    CASE s = "ladder" -> "Ladder"
      [] s = "sledge" -> "Sledge"
      [] s = "gold" -> "Gold"
      [] OTHER -> None

(* Direction *)

Direction == {"North", "South", "West", "East", "Down", "Up"}

\* fault: the deltas of North and South exchanged
DIRECTION_MAPPING_y_up ==
    << [delta |-> Location(0, 1, 0), dir |-> "North"],
       [delta |-> Location(0, -1, 0), dir |-> "South"],
       [delta |-> Location(-1, 0, 0), dir |-> "West"],
       [delta |-> Location(1, 0, 0), dir |-> "East"],
       [delta |-> Location(0, 0, 1), dir |-> "Down"],
       [delta |-> Location(0, 0, -1), dir |-> "Up"] >>

\* fault: North carries the delta of South
DIRECTION_MAPPING_north_is_south ==
    << [delta |-> Location(0, 1, 0), dir |-> "North"],
       [delta |-> Location(0, 1, 0), dir |-> "South"],
       [delta |-> Location(-1, 0, 0), dir |-> "West"],
       [delta |-> Location(1, 0, 0), dir |-> "East"],
       [delta |-> Location(0, 0, 1), dir |-> "Down"],
       [delta |-> Location(0, 0, -1), dir |-> "Up"] >>

DIRECTION_MAPPING ==
    << [delta |-> Location(0, -1, 0), dir |-> "North"],
       [delta |-> Location(0, 1, 0), dir |-> "South"],
       [delta |-> Location(-1, 0, 0), dir |-> "West"],
       [delta |-> Location(1, 0, 0), dir |-> "East"],
       [delta |-> Location(0, 0, 1), dir |-> "Down"],
       [delta |-> Location(0, 0, -1), dir |-> "Up"] >>

DirectionDisplay(d) ==
    CASE d = "North" -> "north"
      [] d = "South" -> "south"
      [] d = "West" -> "west"
      [] d = "East" -> "east"
      [] d = "Down" -> "down"
      [] d = "Up" -> "up"

Direction_from_string(s) ==
    CASE s = "north" -> "North"
      [] s = "south" -> "South"
      [] s = "west" -> "West"
      [] s = "east" -> "East"
      [] s = "down" -> "Down"
      [] s = "up" -> "Up"
      [] OTHER -> None

\* iter().find(): the first entry of the table with this direction
to_location(d) ==
    LET i == CHOOSE i \in 1..Len(DIRECTION_MAPPING) :
                 /\ DIRECTION_MAPPING[i].dir = d
                 /\ \A j \in 1..(i - 1) : DIRECTION_MAPPING[j].dir # d
    IN  DIRECTION_MAPPING[i].delta

(* Room *)

Room_new == [description |-> None, objects |-> {}]

with_description(room, description) == [room EXCEPT !.description = description]

with_objects(room, objects) ==
    [room EXCEPT !.objects = @ \cup {objects[i] : i \in 1..Len(objects)}]

\* rng.gen::<f32>() < 0.33, a draw in hundredths
Threshold == 33

\* the draws of the uniform source the model tries: both sides of the threshold
Draws == {32, 33}

\* rng: the three draws, in the order Sledge, Ladder, Gold
with_random_objects(room, rng) ==
    [room EXCEPT !.objects = @ \cup
        ( (IF rng[1] < Threshold THEN {"Sledge"} ELSE {})
          \cup (IF rng[2] < Threshold THEN {"Ladder"} ELSE {})
          \cup (IF rng[3] < Threshold THEN {"Gold"} ELSE {}) )]

(* Dungeon *)

Dungeon_new ==
    [rooms |->
        (Location(0, 0, 0) :>
            with_objects(with_description(Room_new, "The room where it all started..."),
                         <<"Ladder", "Sledge">>))
        @@ (Location(1, 1, 5) :>
            with_description(Room_new, "You found it! Lots of gold!"))]

\* fault: the neighbour is taken against the direction
exits_for_room_behind(d, location) ==
    LET hit(m) == Add(location, Location(-m.delta[1], -m.delta[2], -m.delta[3]))
                      \in DOMAIN d.rooms
        hits == SelectSeq(DIRECTION_MAPPING, hit)
    IN  [i \in 1..Len(hits) |-> hits[i].dir]

exits_for_room(d, location) ==
    LET hit(m) == Add(location, m.delta) \in DOMAIN d.rooms
        hits == SelectSeq(DIRECTION_MAPPING, hit)
    IN  [i \in 1..Len(hits) |-> hits[i].dir]

--------------------------------------------------------------------------
(* Commands *)

Command == {"North", "South", "West", "East", "Down", "Up", "Help", "Dig", "Look",
            "Inventory", "Take", "Drop", "Equip", "Unequip", "Alias"}

default_aliases ==
    << [names |-> {"n", "north"}, command |-> "North"],
       [names |-> {"s", "south"}, command |-> "South"],
       [names |-> {"w", "west"}, command |-> "West"],
       [names |-> {"e", "east"}, command |-> "East"],
       [names |-> {"d", "down"}, command |-> "Down"],
       [names |-> {"u", "up"}, command |-> "Up"],
       [names |-> {"help"}, command |-> "Help"],
       [names |-> {"dig"}, command |-> "Dig"],
       [names |-> {"l", "look"}, command |-> "Look"],
       [names |-> {"i", "inventory"}, command |-> "Inventory"],
       [names |-> {"take"}, command |-> "Take"],
       [names |-> {"drop"}, command |-> "Drop"],
       [names |-> {"equip"}, command |-> "Equip"],
       [names |-> {"unequip"}, command |-> "Unequip"],
       [names |-> {"alias"}, command |-> "Alias"] >>

\* str::to_lowercase on the words the model types: the words with an upper-case
\* letter map to their lower-case form, every other word is in lower case already
UpperCased ==
    ("GRAB" :> "grab") @@ ("Grab" :> "grab") @@ ("gRAB" :> "grab")
    @@ ("TAKE" :> "take") @@ ("Take" :> "take")
    @@ ("LOOK" :> "look") @@ ("Look" :> "look") @@ ("Ladder" :> "ladder")
    @@ ("ALL" :> "all") @@ ("SOUTH" :> "south")

to_lowercase(s) == IF s \in DOMAIN UpperCased THEN UpperCased[s] ELSE s

\* fault: the word is looked up as typed
find_command_as_typed(command, aliases) ==
    LET found == {i \in 1..Len(aliases) : command \in aliases[i].names}
    IN  IF found = {} THEN None
        ELSE aliases[CHOOSE i \in found : \A j \in found : i <= j].command

\* iter().find(): the command of the first entry whose names hold the word
find_command(command, aliases) ==
    LET c == to_lowercase(command)
        found == {i \in 1..Len(aliases) : c \in aliases[i].names}
    IN  IF found = {} THEN None
        ELSE aliases[CHOOSE i \in found : \A j \in found : i <= j].command

--------------------------------------------------------------------------
(* What a handler prints *)

\* one print!/println! of a fixed text
P(text) == [text |-> text, items |-> {}]

\* one print!/println! whose {} is a HashSet's phrases joined with ", "
PJoin(text, items) == [text |-> text, items |-> items]

\* Vec<String>::join(sep)
RECURSIVE Join(_, _)
Join(strings, sep) ==
    IF Len(strings) = 0 THEN ""
    ELSE IF Len(strings) = 1 THEN strings[1]
    ELSE strings[1] \o sep \o Join(Tail(strings), sep)

HelpText ==
    "You need a sledge to dig rooms and ladders to go upwards.\nValid commands are: directions (north, south...), dig, take, drop, equip, inventory and look.\nAdditionally you can tag rooms with the 'name' command and alias commands with 'alias'.\nHave fun!"

Banner == "Grab the sledge and make your way to room 1,1,5 for a non-existant prize!\n"

--------------------------------------------------------------------------
(* Handlers *)

help == <<P(HelpText)>>

alias(aliases, args) ==
    IF Len(args) < 2
    THEN [command_aliases |-> aliases,
          out |-> <<P("To assign an alias: alias CMQ NEW_ALIAS")>>]
    ELSE LET command == to_lowercase(args[1])
             new_alias == to_lowercase(args[2])
             found == \E i \in 1..Len(aliases) : command \in aliases[i].names
             inserted == [i \in 1..Len(aliases) |->
                             IF command \in aliases[i].names
                             THEN [aliases[i] EXCEPT !.names = @ \cup {new_alias}]
                             ELSE aliases[i]]
         IN  IF found
             THEN [command_aliases |-> inserted,
                   out |-> <<P("You can use \"" \o new_alias \o "\" in lieu of \""
                               \o command \o "\"")>>]
             ELSE [command_aliases |-> aliases,
                   out |-> <<P("The commands \"" \o command \o "\" does not exist")>>]

\* fault: the arm for one exit is missing
exits_clause_no_singular(names) ==
    CASE Len(names) = 0 -> <<P(" There are no exits in this room.")>>
      [] OTHER -> <<P(" Exits: " \o Join(names, ", ") \o ".")>>

\* look: match room_exits.len(), names the exits as displayed
exits_clause(names) ==
    CASE Len(names) = 0 -> <<P(" There are no exits in this room.")>>
      [] Len(names) = 1 -> <<P(" There is one exit: " \o names[1] \o ".")>>
      [] OTHER -> <<P(" Exits: " \o Join(names, ", ") \o ".")>>

look(p, d) ==
    LET room == d.rooms[p.location]
        description ==
            IF room.description # None
            THEN <<P(room.description)>>
            ELSE <<P("Room at " \o LocationDebug(p.location) \o ".")>>
        floor ==
            IF room.objects # {}
            THEN <<PJoin(" On the floor you can see: {}.",
                         {ObjectDisplay(o) : o \in room.objects})>>
            ELSE <<>>
        room_exits == exits_for_room(d, p.location)
        names == [i \in 1..Len(room_exits) |-> DirectionDisplay(room_exits[i])]
    IN  description \o floor \o exits_clause(names)

\* fault: "all" replaces the inventory by the room's objects
take_all_replaces(p, d) ==
    LET room_objects == d.rooms[p.location].objects
    IN  [player |-> [p EXCEPT !.inventory = room_objects],
         dungeon |-> [d EXCEPT !.rooms[p.location].objects = {}],
         out |-> <<P("All items taken")>>]

\* take, args[0] == "all"
take_all(p, d) ==
    LET room_objects == d.rooms[p.location].objects
    IN  [player |-> [p EXCEPT !.inventory = @ \cup room_objects],
         dungeon |-> [d EXCEPT !.rooms[p.location].objects = {}],
         out |-> <<P("All items taken")>>]

\* fault: an object that is not in the room is reported
take_object_reports(p, d, object) ==
    LET room_objects == d.rooms[p.location].objects
    IN  IF object \in room_objects
        THEN [player |-> [p EXCEPT !.inventory = @ \cup {object}],
              dungeon |-> [d EXCEPT !.rooms[p.location].objects = @ \ {object}],
              out |-> <<P("Taken")>>]
        ELSE [player |-> p, dungeon |-> d,
              out |-> <<P("You can't see anything like that here")>>]

\* take, args[0] the name of object
take_object(p, d, object) ==
    LET room_objects == d.rooms[p.location].objects
    IN  IF object \in room_objects
        THEN [player |-> [p EXCEPT !.inventory = @ \cup {object}],
              dungeon |-> [d EXCEPT !.rooms[p.location].objects = @ \ {object}],
              out |-> <<P("Taken")>>]
        ELSE [player |-> p, dungeon |-> d, out |-> <<>>]

take(p, d, args) ==
    IF Len(args) = 0
    THEN [player |-> p, dungeon |-> d, out |-> <<P("To take something: take OBJECT|all")>>]
    ELSE IF d.rooms[p.location].objects = {}
    THEN [player |-> p, dungeon |-> d, out |-> <<P("There is nothing to take here")>>]
    ELSE IF args[1] = "all"
    THEN take_all(p, d)
    ELSE IF Object_from_string(args[1]) # None
    THEN take_object(p, d, Object_from_string(args[1]))
    ELSE [player |-> p, dungeon |-> d, out |-> <<P("You can't see anything like that here")>>]

\* drop, args[0] == "all"
\* fault: the floor holds only what was dropped
drop_all_replaces(p, d) ==
    [player |-> [p EXCEPT !.inventory = {}],
     dungeon |-> [d EXCEPT !.rooms[p.location].objects = p.inventory],
     out |-> <<P("All items dropped")>>]

drop_all(p, d) ==
    [player |-> [p EXCEPT !.inventory = {}],
     dungeon |-> [d EXCEPT !.rooms[p.location].objects = @ \cup p.inventory],
     out |-> <<P("All items dropped")>>]

\* fault: the dropped object stays in the inventory
drop_object_keeps(p, d, object) ==
    IF object \in p.inventory
    THEN [player |-> p,
          dungeon |-> [d EXCEPT !.rooms[p.location].objects = @ \cup {object}],
          out |-> <<P("Dropped")>>]
    ELSE [player |-> p, dungeon |-> d, out |-> <<>>]

\* fault: dropping the equipped object empties the equip slot
drop_object_unequips(p, d, object) ==
    IF object \in p.inventory
    THEN [player |-> [p EXCEPT !.inventory = @ \ {object},
                               !.equipped = IF @ = object THEN None ELSE @],
          dungeon |-> [d EXCEPT !.rooms[p.location].objects = @ \cup {object}],
          out |-> <<P("Dropped")>>]
    ELSE [player |-> p, dungeon |-> d, out |-> <<>>]

\* drop, args[0] the name of object
drop_object(p, d, object) ==
    IF object \in p.inventory
    THEN [player |-> [p EXCEPT !.inventory = @ \ {object}],
          dungeon |-> [d EXCEPT !.rooms[p.location].objects = @ \cup {object}],
          out |-> <<P("Dropped")>>]
    ELSE [player |-> p, dungeon |-> d, out |-> <<>>]

drop(p, d, args) ==
    IF Len(args) = 0
    THEN [player |-> p, dungeon |-> d, out |-> <<P("To drop something: drop OBJECT|all")>>]
    ELSE IF p.inventory = {}
    THEN [player |-> p, dungeon |-> d, out |-> <<P("You are not carrying anything")>>]
    ELSE IF args[1] = "all"
    THEN drop_all(p, d)
    ELSE IF Object_from_string(args[1]) # None
    THEN drop_object(p, d, Object_from_string(args[1]))
    ELSE [player |-> p, dungeon |-> d, out |-> <<P("You don't have anything like that")>>]

inventory(p) ==
    IF p.inventory = {}
    THEN <<P("You are not carrying anything")>>
    ELSE <<PJoin("You are carrying: {}", {ObjectDisplay(o) : o \in p.inventory})>>

\* fault: rooms.insert in place of entry().or_insert_with: a room that exists
\* is replaced by a new one
insert_room(d, target_location, direction, rng) ==
    [dungeon |-> [d EXCEPT !.rooms =
                     (target_location :> with_random_objects(Room_new, rng)) @@ @],
     out |-> <<P("There is now an exit " \o DirectionDisplay(direction) \o "ward")>>]

\* dungeon.rooms.entry(target_location).or_insert_with(...): the closure runs,
\* prints and draws from rng, only when the key is absent
or_insert_with(d, target_location, direction, rng) ==
    IF target_location \in DOMAIN d.rooms
    THEN [dungeon |-> d, out |-> <<>>]
    ELSE [dungeon |-> [d EXCEPT !.rooms =
                          @ @@ (target_location :> with_random_objects(Room_new, rng))],
          out |-> <<P("There is now an exit " \o DirectionDisplay(direction) \o "ward")>>]

\* fault: anything equipped digs
dig_with_anything(p, d, rng, args) ==
    IF Len(args) = 0
    THEN [dungeon |-> d, out |-> <<P("To dig a tunnel: dig DIRECTION")>>]
    ELSE IF Direction_from_string(args[1]) # None
    THEN LET direction == Direction_from_string(args[1])
         IN  IF p.equipped # None
             THEN LET target_location == Add(p.location, to_location(direction))
                      already ==
                          IF target_location \in DOMAIN d.rooms
                          THEN <<P("There is already an exit, there!")>>
                          ELSE <<>>
                      entry == or_insert_with(d, target_location, direction, rng)
                  IN  [dungeon |-> entry.dungeon, out |-> already \o entry.out]
             ELSE [dungeon |-> d, out |-> <<P("With your bare hands?")>>]
    ELSE [dungeon |-> d, out |-> <<P("That is not a direction I recognize")>>]

\* rng: the draws with_random_objects takes when the room is created
dig(p, d, rng, args) ==
    IF Len(args) = 0
    THEN [dungeon |-> d, out |-> <<P("To dig a tunnel: dig DIRECTION")>>]
    ELSE IF Direction_from_string(args[1]) # None
    THEN LET direction == Direction_from_string(args[1])
         IN  IF p.equipped # None
             THEN IF p.equipped = "Sledge"
                  THEN LET target_location == Add(p.location, to_location(direction))
                           already ==
                               IF target_location \in DOMAIN d.rooms
                               THEN <<P("There is already an exit, there!")>>
                               ELSE <<>>
                           entry == or_insert_with(d, target_location, direction, rng)
                       IN  [dungeon |-> entry.dungeon, out |-> already \o entry.out]
                  ELSE [dungeon |-> d,
                        out |-> <<P("You cannot dig with " \o ObjectDisplay(p.equipped))>>]
             ELSE [dungeon |-> d, out |-> <<P("With your bare hands?")>>]
    ELSE [dungeon |-> d, out |-> <<P("That is not a direction I recognize")>>]

\* fault: the Ladder is looked for in the inventory
needs_ladder_carried(p, d, direction) ==
    direction = "North" /\ "Ladder" \notin p.inventory

\* fault: every direction but the level ones needs the Ladder
needs_ladder_vertical(p, d, direction) ==
    direction \in {"North", "Up", "Down"} /\ "Ladder" \notin d.rooms[p.location].objects

\* fault: Up needs the Ladder as North does
needs_ladder_up(p, d, direction) ==
    direction \in {"North", "Up"} /\ "Ladder" \notin d.rooms[p.location].objects

\* goto: North out of a room with no Ladder on its floor
needs_ladder(p, d, direction) ==
    direction = "North" /\ "Ladder" \notin d.rooms[p.location].objects

\* fault: the player is moved before the exit is tested
goto_moves_first(p, d, direction) ==
    IF needs_ladder(p, d, direction)
    THEN [player |-> p, out |-> <<P("You can't go upwards without a ladder!")>>]
    ELSE LET target_location == Add(p.location, to_location(direction))
             moved == [p EXCEPT !.location = target_location]
         IN  IF target_location \notin DOMAIN d.rooms
             THEN [player |-> moved, out |-> <<P("There's no exit in that direction!")>>]
             ELSE [player |-> moved, out |-> look(moved, d)]

goto(p, d, direction) ==
    IF needs_ladder(p, d, direction)
    THEN [player |-> p, out |-> <<P("You can't go upwards without a ladder!")>>]
    ELSE LET target_location == Add(p.location, to_location(direction))
         IN  IF target_location \notin DOMAIN d.rooms
             THEN [player |-> p, out |-> <<P("There's no exit in that direction!")>>]
             ELSE LET moved == [p EXCEPT !.location = target_location]
                  IN  [player |-> moved, out |-> look(moved, d)]

\* fault: equips any object named, carried or not
equip_anything(p, args) ==
    IF Len(args) = 0
    THEN [player |-> p, out |-> <<P("To equip something: equip OBJECT")>>]
    ELSE IF Object_from_string(args[1]) # None
    THEN [player |-> [p EXCEPT !.equipped = Object_from_string(args[1])],
          out |-> <<P("Item equipped")>>]
    ELSE [player |-> p, out |-> <<P("You don't have such object")>>]

equip(p, args) ==
    IF Len(args) = 0
    THEN [player |-> p, out |-> <<P("To equip something: equip OBJECT")>>]
    ELSE IF Object_from_string(args[1]) # None
    THEN LET object == Object_from_string(args[1])
         IN  IF object \in p.inventory
             THEN [player |-> [p EXCEPT !.equipped = object],
                   out |-> <<P("Item equipped")>>]
             ELSE [player |-> p, out |-> <<P("You don't have such object")>>]
    ELSE [player |-> p, out |-> <<P("You don't have such object")>>]

unequip(p) ==
    IF p.equipped # None
    THEN [player |-> [p EXCEPT !.equipped = None], out |-> <<P("Unequipped")>>]
    ELSE [player |-> p, out |-> <<P("You are already not using anything")>>]

--------------------------------------------------------------------------
(* The command loop of main *)

\* The lines the model types, as the tokens split_whitespace yields from them.
Lines ==
    { <<>>, <<"xyzzy">>, <<"help">>, <<"LOOK">>, <<"i">>,
      <<"north">>, <<"s">>, <<"w">>, <<"e">>, <<"d">>, <<"u">>,
      <<"dig">>, <<"dig", "n">>, <<"dig", "north">>, <<"dig", "SOUTH">>, <<"dig", "east">>,
      <<"take">>, <<"take", "ALL">>, <<"take", "Ladder">>, <<"take", "sledge">>,
      <<"take", "gold">>, <<"take", "diamond">>,
      <<"drop">>, <<"drop", "all">>, <<"drop", "ladder">>, <<"drop", "sledge">>,
      <<"drop", "gold">>, <<"drop", "diamond">>,
      <<"equip">>, <<"equip", "sledge">>, <<"equip", "ladder">>, <<"equip", "diamond">>,
      <<"unequip">>,
      <<"alias">>, <<"alias", "take", "grab">>, <<"alias", "take", "n">>,
      <<"alias", "n", "TAKE">>, <<"alias", "bogus", "grab">>,
      <<"Grab", "ladder">> }

\* input.trim().to_lowercase() and split_whitespace(), on a line given as its tokens
splitted(line) == [i \in 1..Len(line) |-> to_lowercase(line[i])]

\* &splitted[1..]
args_of(line) == Tail(splitted(line))

\* find_command(splitted[0], &command_aliases)
resolved(line) == find_command(splitted(line)[1], command_aliases)

Player_new == [location |-> Location(0, 0, 0), inventory |-> {"Sledge"}, equipped |-> None]

Init ==
    /\ command_aliases = default_aliases
    /\ dungeon = Dungeon_new
    /\ player = Player_new
    /\ input = <<>>
    /\ out = <<P(Banner), P(HelpText)>>
    /\ prev = [command_aliases |-> default_aliases, dungeon |-> Dungeon_new,
               player |-> Player_new]
    /\ steps = 0

\* the loop reads a line that is not blank
reads(line) == steps < MaxSteps /\ Len(splitted(line)) # 0

\* one turn of the loop: the line read, and what its handler left and printed
Turn(line, a, d, p, o) ==
    /\ steps' = steps + 1
    /\ input' = line
    /\ prev' = [command_aliases |-> command_aliases, dungeon |-> dungeon, player |-> player]
    /\ command_aliases' = a
    /\ dungeon' = d
    /\ player' = p
    /\ out' = o

\* a room dig creates lies within the bounds of the model
WithinBounds(d) ==
    /\ Cardinality(DOMAIN d.rooms) <= MaxRooms
    /\ \A l \in DOMAIN d.rooms \ DOMAIN Dungeon_new.rooms :
           \A i \in 1..3 : l[i] <= MaxCoord /\ -l[i] <= MaxCoord

Blank ==
    \E line \in Lines :
        /\ steps < MaxSteps
        /\ Len(splitted(line)) = 0
        /\ Turn(line, command_aliases, dungeon, player, <<>>)

\* fault: a word that resolves to no command is ignored like a blank line
Unknown_silent ==
    \E line \in Lines :
        /\ reads(line)
        /\ resolved(line) = None
        /\ Turn(line, command_aliases, dungeon, player, <<>>)

Unknown ==
    \E line \in Lines :
        /\ reads(line)
        /\ resolved(line) = None
        /\ Turn(line, command_aliases, dungeon, player, <<P("I don't know what you mean.")>>)

Help ==
    \E line \in Lines :
        /\ reads(line)
        /\ resolved(line) = "Help"
        /\ Turn(line, command_aliases, dungeon, player, help)

Alias ==
    \E line \in Lines :
        /\ reads(line)
        /\ resolved(line) = "Alias"
        /\ LET r == alias(command_aliases, args_of(line))
           IN  Turn(line, r.command_aliases, dungeon, player, r.out)

Look ==
    \E line \in Lines :
        /\ reads(line)
        /\ resolved(line) = "Look"
        /\ Turn(line, command_aliases, dungeon, player, look(player, dungeon))

Take ==
    \E line \in Lines :
        /\ reads(line)
        /\ resolved(line) = "Take"
        /\ LET r == take(player, dungeon, args_of(line))
           IN  Turn(line, command_aliases, r.dungeon, r.player, r.out)

Drop ==
    \E line \in Lines :
        /\ reads(line)
        /\ resolved(line) = "Drop"
        /\ LET r == drop(player, dungeon, args_of(line))
           IN  Turn(line, command_aliases, r.dungeon, r.player, r.out)

Inventory ==
    \E line \in Lines :
        /\ reads(line)
        /\ resolved(line) = "Inventory"
        /\ Turn(line, command_aliases, dungeon, player, inventory(player))

Dig ==
    \E line \in Lines :
        /\ reads(line)
        /\ resolved(line) = "Dig"
        /\ \E rng \in [1..3 -> Draws] :
               LET r == dig(player, dungeon, rng, args_of(line))
               IN  /\ WithinBounds(r.dungeon)
                   /\ Turn(line, command_aliases, r.dungeon, player, r.out)

Equip ==
    \E line \in Lines :
        /\ reads(line)
        /\ resolved(line) = "Equip"
        /\ LET r == equip(player, args_of(line))
           IN  Turn(line, command_aliases, dungeon, r.player, r.out)

Unequip ==
    \E line \in Lines :
        /\ reads(line)
        /\ resolved(line) = "Unequip"
        /\ LET r == unequip(player)
           IN  Turn(line, command_aliases, dungeon, r.player, r.out)

\* Command::North ... Command::Up: goto with the direction of the same name
Goto ==
    \E line \in Lines :
        /\ reads(line)
        /\ resolved(line) \in Direction
        /\ LET r == goto(player, dungeon, resolved(line))
           IN  Turn(line, command_aliases, dungeon, r.player, r.out)

Next ==
    \/ Blank
    \/ Unknown
    \/ Help
    \/ Alias
    \/ Look
    \/ Take
    \/ Drop
    \/ Inventory
    \/ Dig
    \/ Equip
    \/ Unequip
    \/ Goto

Spec == Init /\ [][Next]_vars

--------------------------------------------------------------------------
(* exits_for_room on its own: any Room Store over ExitCells, probed at any
   coordinate of ExitProbes *)

\* the six neighbours of (0, 0, 0), the coordinate itself and two cells further off
ExitCells ==
    { <<0, -1, 0>>, <<0, 1, 0>>, <<-1, 0, 0>>, <<1, 0, 0>>, <<0, 0, 1>>, <<0, 0, -1>>,
      <<0, 0, 0>>, <<1, 1, 0>>, <<0, 0, 2>> }

ExitProbes == { <<0, 0, 0>>, <<0, 0, 1>>, <<1, 0, 0>>, <<1, 1, 5>> }

InitExits ==
    /\ command_aliases = default_aliases
    /\ \E keys \in SUBSET ExitCells : dungeon = [rooms |-> [l \in keys |-> Room_new]]
    /\ \E location \in ExitProbes : player = [Player_new EXCEPT !.location = location]
    /\ input = <<>>
    /\ out = <<>>
    /\ prev = [command_aliases |-> default_aliases, dungeon |-> Dungeon_new,
               player |-> Player_new]
    /\ steps = 0

\* out: the Vec<Direction> exits_for_room returns
ExitsForRoom ==
    /\ steps = 0
    /\ steps' = 1
    /\ out' = exits_for_room(dungeon, player.location)
    /\ UNCHANGED <<command_aliases, dungeon, player, input, prev>>

NextExits == ExitsForRoom

SpecExits == InitExits /\ [][NextExits]_vars

(* The command loop of main fed one fixed script from the initial state: the
   lines are read in order, and only the draws of Room::with_random_objects
   are left open. *)
GoalScript ==
    << <<"equip", "sledge">>,
       <<"dig", "east">>, <<"e">>,
       <<"dig", "south">>, <<"s">>,
       <<"dig", "down">>, <<"d">>,
       <<"dig", "down">>, <<"d">>,
       <<"dig", "down">>, <<"d">>,
       <<"dig", "down">>, <<"d">>,
       <<"d">> >>

\* the next line of the script is there to be read
scripted == steps < Len(GoalScript) /\ Len(splitted(GoalScript[steps + 1])) # 0

GoalEquip ==
    /\ scripted
    /\ resolved(GoalScript[steps + 1]) = "Equip"
    /\ LET line == GoalScript[steps + 1]
           r == equip(player, args_of(line))
       IN  Turn(line, command_aliases, dungeon, r.player, r.out)

GoalDig ==
    /\ scripted
    /\ resolved(GoalScript[steps + 1]) = "Dig"
    /\ \E rng \in [1..3 -> Draws] :
           LET line == GoalScript[steps + 1]
               r == dig(player, dungeon, rng, args_of(line))
           IN  Turn(line, command_aliases, r.dungeon, player, r.out)

GoalGoto ==
    /\ scripted
    /\ resolved(GoalScript[steps + 1]) \in Direction
    /\ LET line == GoalScript[steps + 1]
           r == goto(player, dungeon, resolved(line))
       IN  Turn(line, command_aliases, dungeon, r.player, r.out)

NextGoal == GoalEquip \/ GoalDig \/ GoalGoto

SpecGoal == Init /\ [][NextGoal]_vars

--------------------------------------------------------------------------
(* Vocabulary of the properties *)

\* the command the last line resolved to, and the arguments its handler got
LastCommand ==
    IF Len(splitted(input)) = 0 THEN None
    ELSE find_command(splitted(input)[1], prev.command_aliases)

LastArgs == args_of(input)

\* the room the player stood in before the last command, and stands in now
PrevRoom == prev.dungeon.rooms[prev.player.location]

Here == dungeon.rooms[player.location]

\* the coordinate deltas as the specification tabulates them
delta(d) ==
    CASE d = "North" -> <<0, -1, 0>>
      [] d = "South" -> <<0, 1, 0>>
      [] d = "West" -> <<-1, 0, 0>>
      [] d = "East" -> <<1, 0, 0>>
      [] d = "Down" -> <<0, 0, 1>>
      [] d = "Up" -> <<0, 0, -1>>

\* the parsing names of the objects
ObjectNames == {"ladder", "sledge", "gold"}

\* the last command was dig with a direction name: that direction, else None
DugDirection ==
    IF LastCommand = "Dig" /\ Len(LastArgs) > 0
    THEN Direction_from_string(LastArgs[1])
    ELSE None

DugTarget == Add(prev.player.location, delta(DugDirection))

\* the last command was take with an object name: that object, else None
TakenObject ==
    IF LastCommand = "Take" /\ Len(LastArgs) > 0
    THEN Object_from_string(LastArgs[1])
    ELSE None

NothingChanged ==
    /\ player = prev.player
    /\ dungeon = prev.dungeon
    /\ command_aliases = prev.command_aliases

--------------------------------------------------------------------------
(* C1: in every reachable state the player's current coordinate is a key of
   the Room Store. *)
C1_LocationIsRoom == player.location \in DOMAIN dungeon.rooms

\* the player has walked into a room that dig created
C1_Witness ==
    /\ player.location \notin DOMAIN Dungeon_new.rooms
    /\ player.location \in DOMAIN dungeon.rooms
    /\ LastCommand \in Direction

(* C2 as stated: for any object on the floor of the current room, take o then
   drop o restores the floor set and the inventory. *)
C2_TakeDropRoundTrip ==
    \A n \in ObjectNames :
        Object_from_string(n) \in Here.objects =>
            LET t == take(player, dungeon, <<n>>)
                r == drop(t.player, t.dungeon, <<n>>)
            IN  /\ r.dungeon.rooms[player.location].objects = Here.objects
                /\ r.player.inventory = player.inventory

(* C2 amended: for any object on the floor of the current room that the player
   does not already carry, take o then drop o restores the floor set and the
   inventory. *)
C2_TakeDropRoundTripNotCarried ==
    \A n \in ObjectNames :
        (Object_from_string(n) \in Here.objects
         /\ Object_from_string(n) \notin player.inventory) =>
            LET t == take(player, dungeon, <<n>>)
                r == drop(t.player, t.dungeon, <<n>>)
            IN  /\ t.out = <<P("Taken")>>
                /\ r.out = <<P("Dropped")>>
                /\ r.dungeon.rooms[player.location].objects = Here.objects
                /\ r.player.inventory = player.inventory

\* from the start, take ladder then drop ladder have run and left the start state
C2_Witness ==
    /\ steps = 2
    /\ LastCommand = "Drop" /\ LastArgs = <<"ladder">>
    /\ out = <<P("Dropped")>>
    /\ "Ladder" \in prev.player.inventory
    /\ "Ladder" \notin PrevRoom.objects
    /\ player = Player_new
    /\ dungeon = Dungeon_new

(* C3 as stated: dig toward a direction whose target coordinate is already a
   key leaves the Room Store unchanged and prints "There is already an exit,
   there!". *)
C3_DigExistingRoom ==
    (DugDirection # None /\ DugTarget \in DOMAIN prev.dungeon.rooms) =>
        /\ dungeon = prev.dungeon
        /\ out = <<P("There is already an exit, there!")>>

(* C3 amended: dig toward a direction whose target coordinate is already a key
   leaves the Room Store unchanged, and prints "There is already an exit,
   there!" when the equip slot holds Sledge. *)
C3_DigExistingRoomSledge ==
    (DugDirection # None /\ DugTarget \in DOMAIN prev.dungeon.rooms) =>
        /\ dungeon = prev.dungeon
        /\ prev.player.equipped = "Sledge" =>
               out = <<P("There is already an exit, there!")>>

\* dig, Sledge equipped, toward a room that holds something
C3_Witness ==
    /\ DugDirection # None
    /\ DugTarget \in DOMAIN prev.dungeon.rooms
    /\ prev.player.equipped = "Sledge"
    /\ prev.dungeon.rooms[DugTarget].objects # {}
    /\ out = <<P("There is already an exit, there!")>>

(* C4: a North command in a room whose floor holds no Ladder prints "You can't
   go upwards without a ladder!" and changes nothing, whether or not a room
   lies to the north and whether or not the player carries a Ladder. *)
C4_NorthNeedsLadderOnFloor ==
    (LastCommand = "North" /\ "Ladder" \notin PrevRoom.objects) =>
        /\ out = <<P("You can't go upwards without a ladder!")>>
        /\ NothingChanged

\* North refused with a room to the north and a Ladder in the inventory
C4_Witness ==
    /\ LastCommand = "North"
    /\ "Ladder" \notin PrevRoom.objects
    /\ "Ladder" \in prev.player.inventory
    /\ Add(prev.player.location, delta("North")) \in DOMAIN prev.dungeon.rooms
    /\ player.location = prev.player.location

(* C5 as stated: take o, o an object name that is not on the floor of the
   current room, prints nothing and changes nothing. *)
C5_TakeAbsentSilent ==
    (TakenObject # None /\ TakenObject \notin PrevRoom.objects) =>
        /\ out = <<>>
        /\ NothingChanged

(* C5 amended: take o, o an object name that is not on the floor of the
   current room, changes nothing; it prints nothing when the floor holds some
   other object, and "There is nothing to take here" when the floor is empty. *)
C5_TakeAbsentNoChange ==
    (TakenObject # None /\ TakenObject \notin PrevRoom.objects) =>
        /\ NothingChanged
        /\ PrevRoom.objects # {} => out = <<>>
        /\ PrevRoom.objects = {} => out = <<P("There is nothing to take here")>>

\* take gold at the start: the floor holds a ladder and a sledge, no gold
C5_Witness ==
    /\ TakenObject = "Gold"
    /\ PrevRoom.objects = {"Ladder", "Sledge"}
    /\ out = <<>>
    /\ NothingChanged

(* Alias table vocabulary *)

\* every word the model types or the table holds, in every spelling the model has
Words ==
    UNION {{line[i] : i \in 1..Len(line)} : line \in Lines}
    \cup UNION {default_aliases[i].names : i \in 1..Len(default_aliases)}
    \cup DOMAIN UpperCased
    \cup {UpperCased[w] : w \in DOMAIN UpperCased}

InSomeSet(w, aliases) == \E i \in 1..Len(aliases) : w \in aliases[i].names

\* the spellings of a word in any letter case
CaseVariants(a) == {w \in Words : to_lowercase(w) = to_lowercase(a)}

\* the last command was alias c a, c and a as typed
AliasedPair == LastCommand = "Alias" /\ Len(input) >= 3

AliasSuccess(c, a) ==
    <<P("You can use \"" \o to_lowercase(a) \o "\" in lieu of \"" \o to_lowercase(c) \o "\"")>>

\* what alias c a promises for a fresh a
AliasTakesOver(c, a) ==
    /\ out = AliasSuccess(c, a)
    /\ \A v \in CaseVariants(a) :
           find_command(v, command_aliases) = find_command(c, prev.command_aliases)
    /\ \A w \in Words :
           find_command(w, prev.command_aliases) # None =>
               find_command(w, command_aliases) = find_command(w, prev.command_aliases)

AliasTakeGrab ==
    (LastCommand = "Alias" /\ LastArgs = <<"take", "grab">>
     /\ prev.command_aliases = default_aliases) =>
        find_command("GRAB", command_aliases) = "Take"

(* C6 as stated: after alias c a, c in some alias set and the string a in
   none, a in any letter case resolves to what c resolved to, and every word
   that resolved before resolves to the same Command. *)
C6_FreshAlias ==
    /\ (AliasedPair /\ InSomeSet(input[2], prev.command_aliases)
        /\ ~InSomeSet(input[3], prev.command_aliases)) =>
           AliasTakesOver(input[2], input[3])
    /\ AliasTakeGrab

(* C6 amended: after alias c a, c in some alias set and the lower-case form of
   a in none, a in any letter case resolves to what c resolved to, and every
   word that resolved before resolves to the same Command; after alias take grab
   on the default table, GRAB resolves to Take. *)
C6_FreshAliasLowerCase ==
    /\ (AliasedPair /\ InSomeSet(input[2], prev.command_aliases)
        /\ ~InSomeSet(to_lowercase(input[3]), prev.command_aliases)) =>
           AliasTakesOver(input[2], input[3])
    /\ AliasTakeGrab

\* alias take grab on the default table: GRAB resolves to Take
C6_Witness ==
    /\ LastCommand = "Alias" /\ LastArgs = <<"take", "grab">>
    /\ prev.command_aliases = default_aliases
    /\ find_command("GRAB", prev.command_aliases) = None
    /\ find_command("GRAB", command_aliases) = "Take"

(* C7: whenever alias c a reports success, a resolves to the same Command as
   c, also when a is already a name of another command. *)
C7_AliasResolvesLikeCommand ==
    (AliasedPair /\ out = AliasSuccess(input[2], input[3])) =>
        find_command(input[3], command_aliases) = find_command(input[2], command_aliases)

(* C8: take all with a non-empty floor F and inventory I leaves inventory
   I \cup F and an empty floor, and changes neither the location, the equip
   slot nor any other room; from the fresh start it leaves {Ladder, Sledge}. *)
C8_TakeAllIsUnion ==
    /\ (LastCommand = "Take" /\ Len(LastArgs) > 0 /\ LastArgs[1] = "all"
        /\ PrevRoom.objects # {}) =>
           /\ player.inventory = prev.player.inventory \cup PrevRoom.objects
           /\ Here.objects = {}
           /\ Here.description = PrevRoom.description
           /\ player.location = prev.player.location
           /\ player.equipped = prev.player.equipped
           /\ DOMAIN dungeon.rooms = DOMAIN prev.dungeon.rooms
           /\ \A l \in DOMAIN dungeon.rooms \ {player.location} :
                  dungeon.rooms[l] = prev.dungeon.rooms[l]
           /\ command_aliases = prev.command_aliases
    /\ (steps = 1 /\ LastCommand = "Take" /\ LastArgs = <<"all">>) =>
           player.inventory = {"Ladder", "Sledge"}

\* take all where the floor and the inventory each hold what the other lacks
C8_Witness ==
    /\ LastCommand = "Take" /\ LastArgs = <<"all">>
    /\ PrevRoom.objects \ prev.player.inventory # {}
    /\ prev.player.inventory \ PrevRoom.objects # {}
    /\ out = <<P("All items taken")>>

(* C9: dig d with Sledge equipped toward a coordinate t that is no key adds
   exactly the key t, a room with no description and a floor within {Sledge,
   Ladder, Gold}, prints "There is now an exit <d>ward" alone, and leaves the
   player and every other room unchanged; from the fresh start equip sledge
   then dig south creates the room at (0, 1, 0). *)
C9_DigCreatesRoom ==
    /\ (DugDirection # None /\ prev.player.equipped = "Sledge"
        /\ DugTarget \notin DOMAIN prev.dungeon.rooms) =>
           /\ DOMAIN dungeon.rooms = DOMAIN prev.dungeon.rooms \cup {DugTarget}
           /\ dungeon.rooms[DugTarget].description = None
           /\ dungeon.rooms[DugTarget].objects \subseteq {"Sledge", "Ladder", "Gold"}
           /\ out = <<P("There is now an exit " \o DirectionDisplay(DugDirection) \o "ward")>>
           /\ player = prev.player
           /\ \A l \in DOMAIN prev.dungeon.rooms : dungeon.rooms[l] = prev.dungeon.rooms[l]
           /\ command_aliases = prev.command_aliases
    /\ (steps = 2 /\ DugDirection = "South" /\ prev.player.equipped = "Sledge"
        /\ prev.player.location = <<0, 0, 0>>) =>
           DOMAIN dungeon.rooms = {<<0, 0, 0>>, <<1, 1, 5>>, <<0, 1, 0>>}

\* equip sledge, dig south from the fresh start: a room with gold at (0, 1, 0)
C9_Witness ==
    /\ steps = 2
    /\ DugDirection = "South"
    /\ prev.player.equipped = "Sledge"
    /\ <<0, 1, 0>> \notin DOMAIN prev.dungeon.rooms
    /\ <<0, 1, 0>> \in DOMAIN dungeon.rooms
    /\ dungeon.rooms[<<0, 1, 0>>].objects = {"Gold"}

--------------------------------------------------------------------------
\* the order in which the specification lists the directions
ListedOrder == <<"North", "South", "West", "East", "Down", "Up">>

Rank(d) == CHOOSE i \in 1..Len(ListedOrder) : ListedOrder[i] = d

(* C10: exits(c) holds a direction d exactly when c + delta(d) is a key of the
   Room Store, and lists its directions in the order North, South, West, East,
   Down, Up, none twice. *)
C10_ExitsAreNeighbours ==
    steps = 1 =>
        /\ \A d \in Direction :
               (\E i \in 1..Len(out) : out[i] = d)
                   <=> Add(player.location, delta(d)) \in DOMAIN dungeon.rooms
        /\ \A i, j \in 1..Len(out) : i < j => Rank(out[i]) < Rank(out[j])

\* a store with the neighbours West, Down and Up only: exits are listed in
\* that order
C10_Witness ==
    /\ steps = 1
    /\ player.location = <<0, 0, 0>>
    /\ DOMAIN dungeon.rooms = {<<0, 0, -1>>, <<0, 0, 1>>, <<-1, 0, 0>>, <<0, 0, 0>>, <<1, 1, 0>>}
    /\ out = <<"West", "Down", "Up">>

--------------------------------------------------------------------------
\* the exits of coordinate c as the specification defines them: the listed
\* directions whose neighbour is a key
ExitList(keys, c) ==
    LET open(d) == Add(c, delta(d)) \in keys
    IN  SelectSeq(ListedOrder, open)

\* the phrases of the objects as the specification gives them
Phrase(o) ==
    CASE o = "Ladder" -> "a ladder"
      [] o = "Sledge" -> "a sledge"
      [] o = "Gold" -> "some gold"

\* the exits clause for the exit list e
ExitsClauseOf(e) ==
    IF Len(e) = 0 THEN " There are no exits in this room."
    ELSE IF Len(e) = 1 THEN " There is one exit: " \o DirectionDisplay(e[1]) \o "."
    ELSE " Exits: " \o Join([i \in 1..Len(e) |-> DirectionDisplay(e[i])], ", ") \o "."

(* C11: look changes nothing; what it prints is the description of the current
   room (or "Room at <coordinate>."), the floor clause when the floor is not
   empty, and the exits clause in the form for 0, 1 or at least 2 exits; a
   second look prints the same. *)
C11_LookReadOnly ==
    LastCommand = "Look" =>
        LET e == ExitList(DOMAIN dungeon.rooms, player.location)
            floor == IF Here.objects = {} THEN 0 ELSE 1
        IN  /\ NothingChanged
            /\ Len(out) = 2 + floor
            /\ out[1] = (IF Here.description # None
                         THEN P(Here.description)
                         ELSE P("Room at " \o LocationDebug(player.location) \o "."))
            /\ floor = 1 =>
                   out[2] = PJoin(" On the floor you can see: {}.",
                                  {Phrase(o) : o \in Here.objects})
            /\ out[Len(out)] = P(ExitsClauseOf(e))
            /\ look(player, dungeon) = out

\* look in a room with two exits and something on the floor
C11_Witness ==
    /\ LastCommand = "Look"
    /\ Len(ExitList(DOMAIN dungeon.rooms, player.location)) = 2
    /\ Len(out) = 3
    /\ out[3] = P(" Exits: north, south.")

--------------------------------------------------------------------------
\* the keys the last command added to the Room Store
NewKeys == DOMAIN dungeon.rooms \ DOMAIN prev.dungeon.rooms

(* C12: no command removes a key of the Room Store; a command adds at most
   one, and only dig with Sledge equipped; the rooms at (0, 0, 0) and
   (1, 1, 5) exist in every state; a description never changes; a floor set
   changes only by take or drop in the room the player stands in. *)
C12_RoomsOnlyGrow ==
    /\ {<<0, 0, 0>>, <<1, 1, 5>>} \subseteq DOMAIN dungeon.rooms
    /\ DOMAIN prev.dungeon.rooms \subseteq DOMAIN dungeon.rooms
    /\ Cardinality(NewKeys) <= 1
    /\ NewKeys # {} => (LastCommand = "Dig" /\ prev.player.equipped = "Sledge")
    /\ \A l \in DOMAIN prev.dungeon.rooms :
           /\ dungeon.rooms[l].description = prev.dungeon.rooms[l].description
           /\ dungeon.rooms[l].objects # prev.dungeon.rooms[l].objects =>
                  (LastCommand \in {"Take", "Drop"} /\ l = prev.player.location)

\* the third room dug, the rooms before it all kept
C12_Witness ==
    /\ LastCommand = "Dig"
    /\ Cardinality(NewKeys) = 1
    /\ Cardinality(DOMAIN prev.dungeon.rooms) = 3
    /\ \E l \in DOMAIN prev.dungeon.rooms : prev.dungeon.rooms[l].objects = {"Gold"}

--------------------------------------------------------------------------
\* the six full direction names
DirectionNames == {"north", "south", "west", "east", "down", "up"}

(* C13: dig with no argument, with an argument that is no full direction
   name, with an empty equip slot or with an object other than Sledge equipped
   prints exactly one message and changes nothing. *)
C13_DigFailureNoChange ==
    (LastCommand = "Dig"
     /\ \/ Len(LastArgs) = 0
        \/ LastArgs[1] \notin DirectionNames
        \/ prev.player.equipped # "Sledge") =>
        /\ NothingChanged
        /\ Len(out) = 1
        /\ out[1] =
              (IF Len(LastArgs) = 0 THEN P("To dig a tunnel: dig DIRECTION")
               ELSE IF LastArgs[1] \notin DirectionNames
               THEN P("That is not a direction I recognize")
               ELSE IF prev.player.equipped = None THEN P("With your bare hands?")
               ELSE P("You cannot dig with " \o Phrase(prev.player.equipped)))

\* dig south with the ladder equipped
C13_Witness ==
    /\ LastCommand = "Dig" /\ LastArgs = <<"south">>
    /\ prev.player.equipped = "Ladder"
    /\ out = <<P("You cannot dig with a ladder")>>
    /\ NothingChanged

--------------------------------------------------------------------------
\* the last command was a movement: the coordinate it aims at
MoveTarget == Add(prev.player.location, delta(LastCommand))

LadderMessage == <<P("You can't go upwards without a ladder!")>>

(* C14: a movement in direction d that the North ladder rule does not block
   moves the player to location + delta(d) when that is a key, and else leaves
   the location and prints "There's no exit in that direction!"; only North
   is ever refused for want of a Ladder; a movement changes neither the Room
   Store, the inventory nor the equip slot. *)
C14_MovementRule ==
    LastCommand \in Direction =>
        /\ dungeon = prev.dungeon
        /\ player.inventory = prev.player.inventory
        /\ player.equipped = prev.player.equipped
        /\ command_aliases = prev.command_aliases
        /\ LastCommand # "North" => out # LadderMessage
        /\ ~(LastCommand = "North" /\ "Ladder" \notin PrevRoom.objects) =>
               IF MoveTarget \in DOMAIN prev.dungeon.rooms
               THEN player.location = MoveTarget
               ELSE /\ player.location = prev.player.location
                    /\ out = <<P("There's no exit in that direction!")>>

\* the player has gone East out of a room with no Ladder on its floor
C14_Witness ==
    /\ LastCommand = "East"
    /\ "Ladder" \notin PrevRoom.objects
    /\ player.location = Add(prev.player.location, <<1, 0, 0>>)
    /\ player.location \in DOMAIN prev.dungeon.rooms

--------------------------------------------------------------------------
\* the last command was equip with an argument: the object it names, else None
EquippedObject ==
    IF LastCommand = "Equip" /\ Len(LastArgs) > 0
    THEN Object_from_string(LastArgs[1])
    ELSE None

(* C15: equip x sets the equip slot to o exactly when x parses to o and o is
   in the inventory, replacing whatever was equipped; with no argument, an
   unparseable one or an object not carried the slot keeps its value; equip
   never changes the inventory, the Room Store or the location. *)
C15_EquipOnlyFromInventory ==
    LastCommand = "Equip" =>
        /\ player.inventory = prev.player.inventory
        /\ player.location = prev.player.location
        /\ dungeon = prev.dungeon
        /\ command_aliases = prev.command_aliases
        /\ IF EquippedObject # None /\ EquippedObject \in prev.player.inventory
           THEN /\ player.equipped = EquippedObject
                /\ out = <<P("Item equipped")>>
           ELSE /\ player.equipped = prev.player.equipped
                /\ out # <<P("Item equipped")>>
                /\ Len(LastArgs) > 0 => out = <<P("You don't have such object")>>

\* equip of a carried Ladder has replaced the Sledge in the slot
C15_Witness ==
    /\ LastCommand = "Equip"
    /\ prev.player.equipped = "Sledge"
    /\ EquippedObject = "Ladder"
    /\ player.equipped = "Ladder"

--------------------------------------------------------------------------
(* C16: only equip and unequip change the equip slot; unequip clears it and
   leaves the inventory alone; dig looks at the slot only, so with the Sledge
   equipped but no longer carried, dig toward an absent target still creates
   the room. *)
C16_EquipSlotIndependent ==
    /\ player.equipped # prev.player.equipped => LastCommand \in {"Equip", "Unequip"}
    /\ LastCommand = "Unequip" =>
           /\ player.equipped = None
           /\ player.inventory = prev.player.inventory
           /\ player.location = prev.player.location
           /\ dungeon = prev.dungeon
    /\ (/\ DugDirection # None
        /\ prev.player.equipped = "Sledge"
        /\ "Sledge" \notin prev.player.inventory
        /\ DugTarget \notin DOMAIN prev.dungeon.rooms) =>
           /\ DugTarget \in DOMAIN dungeon.rooms
           /\ player.equipped = "Sledge"
           /\ out = <<P("There is now an exit " \o LastArgs[1] \o "ward")>>

\* a room has been dug with the Sledge equipped and lying on the floor
C16_Witness ==
    /\ DugDirection # None
    /\ prev.player.equipped = "Sledge"
    /\ "Sledge" \notin prev.player.inventory
    /\ "Sledge" \in PrevRoom.objects
    /\ DugTarget \notin DOMAIN prev.dungeon.rooms
    /\ DugTarget \in DOMAIN dungeon.rooms

--------------------------------------------------------------------------
\* the last command was drop with an argument: the object it names, else None
DroppedObject ==
    IF LastCommand = "Drop" /\ Len(LastArgs) > 0
    THEN Object_from_string(LastArgs[1])
    ELSE None

\* what drop does with a non-empty inventory, and what no drop touches
DropEffect ==
    LastCommand = "Drop" =>
        /\ player.location = prev.player.location
        /\ player.equipped = prev.player.equipped
        /\ command_aliases = prev.command_aliases
        /\ DOMAIN dungeon.rooms = DOMAIN prev.dungeon.rooms
        /\ \A l \in DOMAIN dungeon.rooms \ {player.location} :
               dungeon.rooms[l] = prev.dungeon.rooms[l]
        /\ Here.description = PrevRoom.description
        /\ (prev.player.inventory # {} /\ Len(LastArgs) > 0 /\ LastArgs[1] = "all") =>
               /\ Here.objects = PrevRoom.objects \cup prev.player.inventory
               /\ player.inventory = {}
        /\ (DroppedObject # None /\ DroppedObject \in prev.player.inventory) =>
               /\ player.inventory = prev.player.inventory \ {DroppedObject}
               /\ Here.objects = PrevRoom.objects \cup {DroppedObject}
               /\ out = <<P("Dropped")>>

(* C17 as stated: drop all yields floor F \cup I and an empty inventory; drop o
   for a carried o yields I \ {o} and F \cup {o} with "Dropped"; drop with an
   empty inventory prints "You are not carrying anything" and changes nothing;
   location, equip slot, keys and all other rooms never change.  Fails for the
   bare word drop, which prints the usage line whatever the inventory. *)
C17_DropMirrorsTake ==
    /\ DropEffect
    /\ (LastCommand = "Drop" /\ prev.player.inventory = {}) =>
           /\ out = <<P("You are not carrying anything")>>
           /\ NothingChanged

(* C17 amended: as above, but it is drop with an argument that prints "You are
   not carrying anything" on an empty inventory; drop without an argument
   prints the usage line and changes nothing. *)
C17_DropMirrorsTakeWithArgument ==
    /\ DropEffect
    /\ (LastCommand = "Drop" /\ prev.player.inventory = {} /\ Len(LastArgs) > 0) =>
           /\ out = <<P("You are not carrying anything")>>
           /\ NothingChanged
    /\ (LastCommand = "Drop" /\ Len(LastArgs) = 0) =>
           /\ out = <<P("To drop something: drop OBJECT|all")>>
           /\ NothingChanged

\* drop of a named object with nothing carried, after everything was dropped
C17_Witness ==
    /\ LastCommand = "Drop"
    /\ prev.player.inventory = {}
    /\ DroppedObject # None
    /\ out = <<P("You are not carrying anything")>>
    /\ PrevRoom.objects # {}

--------------------------------------------------------------------------
(* C18: a line whose first token resolves to no command in the current alias
   table prints "I don't know what you mean." and changes no state; a blank
   line prints nothing and changes no state; after either the loop reads the
   next line. *)
C18_DispatchFallback ==
    /\ (Len(splitted(input)) > 0 /\ LastCommand = None) =>
           /\ out = <<P("I don't know what you mean.")>>
           /\ NothingChanged
    /\ (steps > 0 /\ Len(splitted(input)) = 0) =>
           /\ out = <<>>
           /\ NothingChanged
    /\ (steps > 0 /\ steps < MaxSteps /\ LastCommand = None) => ENABLED Next

\* an unknown word has been answered while the alias table holds a user alias
C18_Witness ==
    /\ Len(splitted(input)) > 0
    /\ LastCommand = None
    /\ command_aliases # default_aliases
    /\ out = <<P("I don't know what you mean.")>>

--------------------------------------------------------------------------
\* North/South, West/East and Down/Up swapped
Opposite(d) ==
    CASE d = "North" -> "South"
      [] d = "South" -> "North"
      [] d = "West" -> "East"
      [] d = "East" -> "West"
      [] d = "Down" -> "Up"
      [] d = "Up" -> "Down"

\* direction d is in exits(c), computed on the current Room Store
HasExit(c, d) ==
    LET exits == exits_for_room(dungeon, c)
    IN  \E i \in 1..Len(exits) : exits[i] = d

\* a dig toward an absent target lists the direction back in the new room
DigOpensBothWays ==
    (DugDirection # None /\ DugTarget \in NewKeys) =>
        /\ HasExit(prev.player.location, DugDirection)
        /\ HasExit(DugTarget, Opposite(DugDirection))

(* C19 as stated: for every room c and direction d, d is in exits(c) if and
   only if the opposite direction is in exits(c + delta(d)); a single dig
   toward an absent target creates a room that lists the direction back.
   Fails from right to left where c + delta(d) is no room: exits is computed
   for any coordinate, and the neighbour of a room always sees that room. *)
C19_ExitsSymmetric ==
    /\ \A c \in DOMAIN dungeon.rooms : \A d \in Direction :
           HasExit(c, d) <=> HasExit(Add(c, delta(d)), Opposite(d))
    /\ DigOpensBothWays

(* C19 amended: for every room c and direction d, d in exits(c) implies the
   opposite direction in exits(c + delta(d)), and the two are equivalent when
   c + delta(d) is a room too; a single dig toward an absent target creates a
   room that lists the direction back. *)
C19_ExitsSymmetricBetweenRooms ==
    /\ \A c \in DOMAIN dungeon.rooms : \A d \in Direction :
           /\ HasExit(c, d) => HasExit(Add(c, delta(d)), Opposite(d))
           /\ Add(c, delta(d)) \in DOMAIN dungeon.rooms =>
                  (HasExit(c, d) <=> HasExit(Add(c, delta(d)), Opposite(d)))
    /\ DigOpensBothWays

\* one dig has made a room that already lists the way back
C19_Witness ==
    /\ DugDirection # None
    /\ DugTarget \in NewKeys
    /\ HasExit(DugTarget, Opposite(DugDirection))
    /\ Cardinality(DOMAIN dungeon.rooms) = 3

--------------------------------------------------------------------------
\* where the script stands after each of its lines, from the deltas of the
\* specification
GoalPath ==
    << <<0, 0, 0>>, <<0, 0, 0>>,
       <<0, 0, 0>>, <<1, 0, 0>>,
       <<1, 0, 0>>, <<1, 1, 0>>,
       <<1, 1, 0>>, <<1, 1, 1>>,
       <<1, 1, 1>>, <<1, 1, 2>>,
       <<1, 1, 2>>, <<1, 1, 3>>,
       <<1, 1, 3>>, <<1, 1, 4>>,
       <<1, 1, 5>> >>

(* C20: from the initial state a finite sequence of commands brings the player
   to (1,1,5), with no North move and whatever objects the dug rooms receive:
   the script equip sledge, dig east, e, dig south, s, four times dig down and
   d, then d, stands at the same coordinate after each line under every draw,
   and at its end the player is in the room at (1,1,5). *)
C20_GoalReachable ==
    /\ steps <= Len(GoalScript)
    /\ player.location = GoalPath[steps + 1]
    /\ steps > 0 => LastCommand # "North"
    /\ steps > 0 => input = GoalScript[steps]
    /\ steps = Len(GoalScript) =>
           /\ player.location = <<1, 1, 5>>
           /\ Here.description = "You found it! Lots of gold!"

\* the script is through and the player stands in the goal room; no room on
\* the way received a Ladder
C20_Witness ==
    /\ steps = Len(GoalScript)
    /\ player.location = <<1, 1, 5>>
    /\ \A l \in DOMAIN dungeon.rooms \ DOMAIN Dungeon_new.rooms :
           "Ladder" \notin dungeon.rooms[l].objects

====
